---- MODULE Spec2Model ----
(***************************************************************************)
(* A model of golang-fp-utility: the higher-order functions over slices    *)
(* (Map, Sort, DistinctFunc), the reflective field accessor GetField and   *)
(* the grouping operations GroupBy / GroupBy1By1 built on it.              *)
(*                                                                         *)
(* The library is a set of synchronous functions.  The state machine is a  *)
(* caller that owns one slice (mem), invokes one library function on it    *)
(* and observes what comes back: pc says whether the call returned or      *)
(* panicked, call records the arguments as they were when the call was     *)
(* made, mem is the content of the caller's slice after the call, and ret  *)
(* is the returned value, the returned error and whether the returned      *)
(* slice is the caller's own backing array or a fresh one.                 *)
(***************************************************************************)
EXTENDS Integers, Sequences, FiniteSets, TLC

VARIABLES pc, call, mem, ret

vars == <<pc, call, mem, ret>>

(***************************************************************************)
(* Bounds of the model.                                                    *)
(***************************************************************************)
MaxLen == 3      \* longest slice handed to a sequence operation
MaxElem == 2     \* slice elements of Map / DistinctFunc are 0..MaxElem
MaxKey == 1      \* sort keys and integer field values are 0..MaxKey

Elems == 0..MaxElem
Keys == 0..MaxKey

SeqsUpTo(S, n) == UNION {[1..k -> S] : k \in 0..n}

NoError == [kind |-> "nil"]
NoCall == [op |-> "none"]
NoRet == [val |-> <<>>, nil |-> TRUE, err |-> NoError, ref |-> "none"]

(***************************************************************************)
(* Map: result := []T2{}; for each item, result = append(result, f(item)). *)
(* A transform is a function value [Elems -> Elems].                         *)
(***************************************************************************)
RECURSIVE MapLoop(_, _, _)
MapLoop(source, transform, result) ==
    IF source = <<>>
    THEN result
    ELSE MapLoop(Tail(source), transform, Append(result, transform[Head(source)]))

MapSkipsFirst(source, transform) ==
    IF source = <<>> THEN <<>> ELSE MapLoop(Tail(source), transform, <<>>)

Map(source, transform) ==
    MapLoop(source, transform, <<>>)

CallMap ==
    /\ pc = "idle"
    /\ \E source \in SeqsUpTo(Elems, MaxLen), transform \in [Elems -> Elems] :
          /\ call' = [op |-> "Map", source |-> source, transform |-> transform]
          /\ mem' = source
          /\ ret' = [val |-> Map(source, transform), nil |-> FALSE, err |-> NoError, ref |-> "fresh"]
    /\ pc' = "returned"

(***************************************************************************)
(* fmt.Sprintf("%v", key) and the comparison of two strings with <.  A     *)
(* string is the sequence of its characters; the characters here are the   *)
(* decimal digits, whose byte order is their numeric order.  A map key is  *)
(* an int or a string: an int prints as its decimal digits, a string as    *)
(* itself, so the int 10 and the string "10" print alike.                  *)
(***************************************************************************)
RECURSIVE Digits(_)
Digits(n) == IF n < 10 THEN <<n>> ELSE Append(Digits(n \div 10), n % 10)

IntKey(n) == [kind |-> "int", n |-> n]
StringKey(s) == [kind |-> "string", s |-> s]

Sprintf(key) == IF key.kind = "int" THEN Digits(key.n) ELSE key.s

ShorterFirst(a, b) ==
    \/ Len(a) < Len(b)
    \/ Len(a) = Len(b) /\ \E i \in 1..Len(a) :
          a[i] < b[i] /\ \A j \in 1..(i - 1) : a[j] = b[j]

RECURSIVE StrLess(_, _)
StrLess(a, b) ==
    IF b = <<>> THEN FALSE
    ELSE IF a = <<>> THEN TRUE
    ELSE IF Head(a) # Head(b) THEN Head(a) < Head(b)
    ELSE StrLess(Tail(a), Tail(b))

(***************************************************************************)
(* Sort: sort.Slice(list, less); return list.  The slice is sorted in      *)
(* place and the very same slice is returned.  sort.Slice leaves the list  *)
(* ordered by less and "is not guaranteed to be stable": which of the      *)
(* ordered arrangements comes out is not fixed by its contract, so the     *)
(* outcome is any permutation of the list that less accepts.  less takes   *)
(* indices and reads the slice being sorted; here it is named by the       *)
(* comparison it makes on the two elements; "sprintf" is the less of the   *)
(* map operations, which compares the printed forms of two keys.           *)
(* An element is a record with a name and a key, as {a,1}, {b,1}, {c,0};   *)
(* the i-th element of an input is named i.                                *)
(***************************************************************************)
LessFuncs == {"keyAsc", "keyDesc"}

Less(less, x, y) ==
    IF less = "keyAsc" THEN x.key < y.key
    ELSE IF less = "keyDesc" THEN x.key > y.key
    ELSE StrLess(Sprintf(x), Sprintf(y))

Named(keys) == [i \in 1..Len(keys) |-> [name |-> i, key |-> keys[i]]]

IsOrdered(list, less) ==
    \A i \in 1..Len(list), j \in 1..Len(list) : i < j => ~Less(less, list[j], list[i])

Rearrangements(list) ==
    {[i \in 1..Len(list) |-> list[p[i]]] : p \in Permutations(1..Len(list))}

SortSliceLeavingFirst(list, less) ==
    IF list = <<>>
    THEN {list}
    ELSE {r \in Rearrangements(list) :
             r[1] = list[1] /\ IsOrdered(SubSeq(r, 2, Len(r)), less)}

SortSlice(list, less) ==
    {r \in Rearrangements(list) : IsOrdered(r, less)}

CallSort ==
    /\ pc = "idle"
    /\ \E keys \in SeqsUpTo(Keys, MaxLen), less \in LessFuncs :
          /\ call' = [op |-> "Sort", source |-> Named(keys), less |-> less]
          /\ \E sorted \in SortSlice(Named(keys), less) :
                /\ mem' = sorted
                /\ ret' = [val |-> sorted, nil |-> FALSE, err |-> NoError, ref |-> "input"]
    /\ pc' = "returned"

(***************************************************************************)
(* DistinctFunc: the loop of Distinct, keyed on a "seen" set; compareFunc  *)
(* is a parameter the body never calls.                                    *)
(***************************************************************************)
CompareFuncs == {"equal", "equalMod2"}

Compare(compareFunc, a, b) ==
    IF compareFunc = "equal" THEN a = b ELSE a % 2 = b % 2

RECURSIVE DistinctLoop(_, _, _)
DistinctLoop(slice, seen, unique) ==
    IF slice = <<>>
    THEN unique
    ELSE IF Head(slice) \notin seen
         THEN DistinctLoop(Tail(slice), seen \cup {Head(slice)}, Append(unique, Head(slice)))
         ELSE DistinctLoop(Tail(slice), seen, unique)

DistinctFunc(slice, compareFunc) ==
    DistinctLoop(slice, {}, <<>>)

CallDistinctFunc ==
    /\ pc = "idle"
    /\ \E slice \in SeqsUpTo(Elems, MaxLen), compareFunc \in CompareFuncs :
          /\ call' = [op |-> "DistinctFunc", source |-> slice, compareFunc |-> compareFunc]
          /\ mem' = slice
          /\ ret' = [val |-> DistinctFunc(slice, compareFunc), nil |-> FALSE,
                     err |-> NoError, ref |-> "fresh"]
    /\ pc' = "returned"

(***************************************************************************)
(* Distinct: an item is appended the first time it is met.                 *)
(***************************************************************************)
DistinctKeepingLast(slice) ==
    LET Reversed(list) == [i \in 1..Len(list) |-> list[Len(list) + 1 - i]]
    IN  Reversed(DistinctLoop(Reversed(slice), {}, <<>>))

Distinct(slice) ==
    DistinctLoop(slice, {}, <<>>)

CallDistinct ==
    /\ pc = "idle"
    /\ \E slice \in SeqsUpTo(Elems, MaxLen) :
          /\ call' = [op |-> "Distinct", source |-> slice]
          /\ mem' = slice
          /\ ret' = [val |-> Distinct(slice), nil |-> FALSE, err |-> NoError, ref |-> "fresh"]
    /\ pc' = "returned"

(***************************************************************************)
(* Filter: result := []T{} is an empty slice that is not nil, and append   *)
(* never makes it nil.  A nil source ranges over no item.  filterFunc is   *)
(* the set of the items it accepts.                                        *)
(***************************************************************************)
RECURSIVE FilterLoop(_, _, _)
FilterLoop(source, filterFunc, result) ==
    IF source = <<>>
    THEN result
    ELSE IF Head(source) \in filterFunc
         THEN FilterLoop(Tail(source), filterFunc, Append(result, Head(source)))
         ELSE FilterLoop(Tail(source), filterFunc, result)

FilterFromNil(source, filterFunc) ==
    LET result == FilterLoop(source, filterFunc, <<>>)
    IN  [val |-> result, nil |-> result = <<>>]

Filter(source, filterFunc) ==
    [val |-> FilterLoop(source, filterFunc, <<>>), nil |-> FALSE]

CallFilter ==
    /\ pc = "idle"
    /\ \E source \in SeqsUpTo(Elems, MaxLen), isNil \in BOOLEAN, filterFunc \in SUBSET Elems :
          LET out == Filter(source, filterFunc)
          IN  /\ isNil => source = <<>>
              /\ call' = [op |-> "Filter", source |-> source, isNil |-> isNil,
                          filterFunc |-> filterFunc]
              /\ mem' = source
              /\ ret' = [val |-> out.val, nil |-> out.nil, err |-> NoError, ref |-> "fresh"]
    /\ pc' = "returned"

(***************************************************************************)
(* Reduce: acc := initialValue; acc = reduceFunc(acc, item) for each item. *)
(* The reduce functions are a difference, which tells its two arguments    *)
(* apart, and the step of a positional numeral, which tells the order of   *)
(* the items.                                                              *)
(***************************************************************************)
ReduceFuncs == {"difference", "numeral"}

ReduceFunc(reduceFunc, acc, item) ==
    IF reduceFunc = "difference" THEN acc - item ELSE acc * (MaxElem + 1) + item

RECURSIVE ReduceLoop(_, _, _)
ReduceLoop(source, reduceFunc, acc) ==
    IF source = <<>>
    THEN acc
    ELSE ReduceLoop(Tail(source), reduceFunc, ReduceFunc(reduceFunc, acc, Head(source)))

ReduceBackwards(source, reduceFunc, initialValue) ==
    ReduceLoop([i \in 1..Len(source) |-> source[Len(source) + 1 - i]], reduceFunc, initialValue)

Reduce(source, reduceFunc, initialValue) ==
    ReduceLoop(source, reduceFunc, initialValue)

CallReduce ==
    /\ pc = "idle"
    /\ \E source \in SeqsUpTo(Elems, MaxLen), reduceFunc \in ReduceFuncs, initialValue \in Elems :
          /\ call' = [op |-> "Reduce", source |-> source, reduceFunc |-> reduceFunc,
                      initialValue |-> initialValue]
          /\ mem' = source
          /\ ret' = [val |-> Reduce(source, reduceFunc, initialValue), nil |-> FALSE,
                     err |-> NoError, ref |-> "none"]
    /\ pc' = "returned"

(***************************************************************************)
(* FlatMap: result := []T1{}; result = append(result, item...) for each    *)
(* inner slice.  FlatMap never looks at an element, so the elements of an  *)
(* input are told apart by where they stand: the j-th element of the i-th  *)
(* inner slice is {i, j}, and an input is given by the lengths of its      *)
(* inner slices.                                                           *)
(***************************************************************************)
MaxOuter == 3
MaxInner == 2

Nested(lengths) ==
    [i \in 1..Len(lengths) |-> [j \in 1..lengths[i] |-> [group |-> i, pos |-> j]]]

RECURSIVE FlatMapLoop(_, _)
FlatMapLoop(source, result) ==
    IF source = <<>>
    THEN result
    ELSE FlatMapLoop(Tail(source), result \o Head(source))

FlatMapPrepending(source) ==
    LET Reversed(list) == [i \in 1..Len(list) |-> list[Len(list) + 1 - i]]
    IN  FlatMapLoop(Reversed(source), <<>>)

FlatMap(source) ==
    FlatMapLoop(source, <<>>)

CallFlatMap ==
    /\ pc = "idle"
    /\ \E lengths \in SeqsUpTo(0..MaxInner, MaxOuter) :
          /\ call' = [op |-> "FlatMap", source |-> Nested(lengths)]
          /\ mem' = Nested(lengths)
          /\ ret' = [val |-> FlatMap(Nested(lengths)), nil |-> FALSE, err |-> NoError,
                     ref |-> "fresh"]
    /\ pc' = "returned"

(***************************************************************************)
(* Callbacks that may fail.  A callback is a record: the set of items it   *)
(* fails on and, for a mapping function, the table of its results.  A      *)
(* failure is the error the callback made for that item; the result that   *)
(* comes with it is the zero value.  The loops below keep, beside what the *)
(* code computes, the list of the zero-based indices the callback was      *)
(* invoked at, in invocation order.                                        *)
(***************************************************************************)
Cause(item) == [kind |-> "callback failed", item |-> item]

Successor == [e \in Elems |-> (e + 1) % (MaxElem + 1)]
Identity == [e \in Elems |-> e]

Callbacks == [transform : {Successor, Identity}, fails : SUBSET Elems]

Invoke(callback, item) ==
    IF item \in callback.fails
    THEN [res |-> 0, err |-> Cause(item)]
    ELSE [res |-> callback.transform[item], err |-> NoError]

(***************************************************************************)
(* ForEachWithError: the first error an action returns ends the loop and   *)
(* is returned as it is.                                                   *)
(***************************************************************************)
RECURSIVE ForEachWithErrorLoop(_, _, _, _)
ForEachWithErrorLoop(source, action, idx, invoked) ==
    IF idx >= Len(source)
    THEN [err |-> NoError, invoked |-> invoked]
    ELSE LET err == Invoke(action, source[idx + 1]).err
         IN  IF err # NoError
             THEN [err |-> err, invoked |-> Append(invoked, idx)]
             ELSE ForEachWithErrorLoop(source, action, idx + 1, Append(invoked, idx))

ForEachIgnoringErrors(source, action) ==
    [err |-> NoError, invoked |-> [i \in 1..Len(source) |-> i - 1]]

ForEachWithError(source, action) ==
    ForEachWithErrorLoop(source, action, 0, <<>>)

CallForEachWithError ==
    /\ pc = "idle"
    /\ \E source \in SeqsUpTo(Elems, MaxLen), action \in Callbacks :
          LET out == ForEachWithError(source, action)
          IN  /\ action.transform = Identity
              /\ call' = [op |-> "ForEachWithError", source |-> source, action |-> action]
              /\ mem' = source
              /\ ret' = [val |-> <<>>, nil |-> TRUE, err |-> out.err, ref |-> "none",
                         invoked |-> out.invoked]
    /\ pc' = "returned"

(***************************************************************************)
(* MapReturnWithError: errors.Wrap(err, "error mapping at index:'idx',     *)
(* error") and a nil result at the first failure.                          *)
(***************************************************************************)
WrapIndexOneBased(err, idx) ==
    [kind |-> "error mapping at index", index |-> idx + 1, cause |-> err]

WrapIndex(err, idx) ==
    [kind |-> "error mapping at index", index |-> idx, cause |-> err]

RECURSIVE MapReturnWithErrorLoop(_, _, _, _, _)
MapReturnWithErrorLoop(source, mappingFunc, idx, result, invoked) ==
    IF idx >= Len(source)
    THEN [val |-> result, nil |-> FALSE, err |-> NoError, invoked |-> invoked]
    ELSE LET out == Invoke(mappingFunc, source[idx + 1])
         IN  IF out.err # NoError
             THEN [val |-> <<>>, nil |-> TRUE, err |-> WrapIndex(out.err, idx),
                   invoked |-> Append(invoked, idx)]
             ELSE MapReturnWithErrorLoop(source, mappingFunc, idx + 1,
                                         Append(result, out.res), Append(invoked, idx))

MapReturnWithError(source, mappingFunc) ==
    MapReturnWithErrorLoop(source, mappingFunc, 0, <<>>, <<>>)

CallMapReturnWithError ==
    /\ pc = "idle"
    /\ \E source \in SeqsUpTo(Elems, MaxLen), mappingFunc \in Callbacks :
          LET out == MapReturnWithError(source, mappingFunc)
          IN  /\ call' = [op |-> "MapReturnWithError", source |-> source,
                          mappingFunc |-> mappingFunc]
              /\ mem' = source
              /\ ret' = [val |-> out.val, nil |-> out.nil, err |-> out.err, ref |-> "fresh",
                         invoked |-> out.invoked]
    /\ pc' = "returned"

(***************************************************************************)
(* reflect.Value.  A value carries its kind and, by kind, its payload.     *)
(* Invalid is the zero Value, for which IsValid() is false.                *)
(***************************************************************************)
Invalid == [kind |-> "invalid"]
IntValue(n) == [kind |-> "int", int |-> n]
StringValue(s) == [kind |-> "string", str |-> s]
StructValue(type, fields) == [kind |-> "struct", type |-> type, fields |-> fields]
SliceValue(elems) == [kind |-> "slice", elems |-> elems]
NilPointer == [kind |-> "ptr", isNil |-> TRUE]
PointerTo(v) == [kind |-> "ptr", isNil |-> FALSE, elem |-> v]

IsValid(v) == v.kind # "invalid"

\* Value.Elem of a pointer: the zero Value for a nil pointer.
Elem(v) == IF v.isNil THEN Invalid ELSE v.elem

\* Value.FieldByName of a struct: the zero Value when no field has the name.
\* A segment is the sequence of tokens between two dots; it names a field
\* when it is that one field name.
FieldByName(v, name) ==
    IF Len(name) = 1 /\ name[1] \in DOMAIN v.fields THEN v.fields[name[1]] ELSE Invalid

\* The dynamic type a type assertion compares with K.
TypeOf(v) ==
    IF v.kind = "struct" THEN v.type
    ELSE IF v.kind = "slice" THEN "[]interface {}"
    ELSE IF v.kind = "ptr" THEN "*Layer2"
    ELSE v.kind

(***************************************************************************)
(* A field path is a string: here the sequence of its tokens, a token      *)
(* being a field name or the dot.  strings.Split(fieldName, ".") cuts it   *)
(* at every dot; the empty string gives one empty segment.                 *)
(***************************************************************************)
Dot == "."

RECURSIVE SplitLoop(_, _, _)
SplitLoop(s, current, done) ==
    IF s = <<>>
    THEN Append(done, current)
    ELSE IF Head(s) = Dot
         THEN SplitLoop(Tail(s), <<>>, Append(done, current))
         ELSE SplitLoop(Tail(s), Append(current, Head(s)), done)

Split(fieldName) == SplitLoop(fieldName, <<>>, <<>>)

RECURSIVE Join(_)
Join(segments) ==
    IF segments = <<>> THEN <<>>
    ELSE IF Len(segments) = 1 THEN <<Head(segments)>>
    ELSE <<Head(segments), Dot>> \o Join(Tail(segments))

(***************************************************************************)
(* GetField.  An outcome is a value or a panic of the reflect package:     *)
(* FieldByName panics on a Value whose kind is not Struct, the zero Value  *)
(* included.                                                               *)
(***************************************************************************)
Panic == [panicked |-> TRUE]
Value(v) == [panicked |-> FALSE, value |-> v]

ValidValues(subs) ==
    LET valid == SelectSeq(subs, LAMBDA o : IsValid(o.value))
    IN  [i \in 1..Len(valid) |-> valid[i].value]

RECURSIVE GetField(_, _)
RECURSIVE GetFieldLoop(_, _)
GetFieldLoop(element, names) ==
    IF names = <<>>
    THEN Value(element)
    ELSE LET name == Head(names)
             deref == IF element.kind = "ptr" THEN Elem(element) ELSE element
         IN  IF deref.kind = "slice"
             THEN LET subs == [i \in 1..Len(deref.elems) |-> GetField(deref.elems[i], name)]
                  IN  IF \E i \in 1..Len(subs) : subs[i].panicked
                      THEN Panic
                      ELSE Value(SliceValue(ValidValues(subs)))
             ELSE IF deref.kind # "struct"
                  THEN Panic
                  ELSE GetFieldLoop(FieldByName(deref, name), Tail(names))

GetFieldFirstSegment(element, fieldName) ==
    GetFieldLoop(element, <<Head(Split(fieldName))>>)

GetField(element, fieldName) ==
    GetFieldLoop(element, Split(fieldName))

(***************************************************************************)
(* The records GetField is applied to, of the Go types                     *)
(*   Layer2   struct { Age int }                                           *)
(*   Item     struct { Layer2 Layer2 }                                     *)
(*   MyStruct struct { Age int; Layer2 Layer2; Items []Item;               *)
(*                     Ref *Layer2; Refs []*Layer2 }                       *)
(*   Outer    struct { Item Item }                                         *)
(* Each record varies one part of a MyStruct and leaves the others at      *)
(* their zero values.                                                      *)
(***************************************************************************)
MaxItems == 2    \* longest slice held in a field
MaxSegs == 3     \* most segments in a field path given to GetField

Layer2(n) == StructValue("Layer2", [Age |-> IntValue(n)])
Item(n) == StructValue("Item", [Layer2 |-> Layer2(n)])
MyStruct(age, layer2, items, ref, refs) ==
    StructValue("MyStruct", [Age |-> age, Layer2 |-> layer2, Items |-> SliceValue(items),
                             Ref |-> ref, Refs |-> SliceValue(refs)])

Outer(n) == StructValue("Outer", [Item |-> Item(n)])

Layer2Refs == {NilPointer} \cup {PointerTo(Layer2(n)) : n \in Keys}

Records ==
    {MyStruct(IntValue(a), Layer2(n), <<>>, NilPointer, <<>>) : a \in Keys, n \in Keys}
    \cup {MyStruct(IntValue(0), Layer2(0), [i \in 1..Len(ks) |-> Item(ks[i])], NilPointer, <<>>) :
            ks \in SeqsUpTo(Keys, MaxItems)}
    \cup {MyStruct(IntValue(0), Layer2(0), <<>>, r, <<>>) : r \in Layer2Refs}
    \cup {MyStruct(IntValue(0), Layer2(0), <<>>, NilPointer, rs) :
            rs \in SeqsUpTo(Layer2Refs, MaxItems)}
    \cup {Outer(n) : n \in Keys}

FieldNames == {"Age", "Layer2", "Item", "Items", "Ref", "Refs", "Nope"}

FieldPaths == {Join(segments) : segments \in SeqsUpTo(FieldNames, MaxSegs)}

CallGetField ==
    /\ pc = "idle"
    /\ \E element \in Records, fieldName \in FieldPaths :
          LET out == GetField(element, fieldName)
          IN  /\ call' = [op |-> "GetField", element |-> element, fieldName |-> fieldName]
              /\ mem' = <<>>
              /\ IF out.panicked
                 THEN pc' = "panicked" /\ ret' = NoRet
                 ELSE /\ pc' = "returned"
                      /\ ret' = [val |-> out.value, nil |-> FALSE, err |-> NoError,
                                 ref |-> "fresh"]

(***************************************************************************)
(* GroupBy and GroupBy1By1.  A Go map is a function from its keys; a call  *)
(* ends in a panic or returns a map (nil or not) and an error.  The type   *)
(* parameter K is named by the type it stands for.  key :=                 *)
(* fieldValue.Interface().(K) is the one-result form of the type           *)
(* assertion: it panics when the dynamic type is not K.  The test          *)
(* sliceValue.Kind() != reflect.Slice is false of every []V.               *)
(***************************************************************************)
NotExist(fieldName) == [kind |-> "groupBy: field does not exist", field |-> fieldName]
NotUnique(fieldName) == [kind |-> "groupBy: field is not unique", field |-> fieldName]

EmptyMap == <<>>
Put(m, key, value) ==
    [k \in DOMAIN m \cup {key} |-> IF k = key THEN value ELSE m[k]]
Get(m, key) == IF key \in DOMAIN m THEN m[key] ELSE <<>>

Failed(err) == [panicked |-> FALSE, val |-> EmptyMap, nil |-> TRUE, err |-> err]
Grouped(result) == [panicked |-> FALSE, val |-> result, nil |-> FALSE, err |-> NoError]

\* result[key] = append(result[key], element)
PrependTo(result, key, element) ==
    Put(result, key, <<element>> \o Get(result, key))

AppendTo(result, key, element) ==
    Put(result, key, Append(Get(result, key), element))

RECURSIVE GroupByLoop(_, _, _, _)
GroupByLoop(slice, fieldName, K, result) ==
    IF slice = <<>>
    THEN Grouped(result)
    ELSE LET element == Head(slice)
             fieldValue == GetField(element, fieldName)
         IN  IF fieldValue.panicked
             THEN Panic
             ELSE IF ~IsValid(fieldValue.value)
                  THEN Failed(NotExist(fieldName))
                  ELSE IF TypeOf(fieldValue.value) # K
                       THEN Panic
                       ELSE LET key == fieldValue.value
                            IN  GroupByLoop(Tail(slice), fieldName, K,
                                    AppendTo(result, key, element))

GroupBy(slice, fieldName, K) ==
    GroupByLoop(slice, fieldName, K, EmptyMap)

RECURSIVE UniqueLoopOffByOne(_, _, _, _)
UniqueLoopOffByOne(grouped, order, fieldName, uniqueResult) ==
    IF order = <<>>
    THEN Grouped(uniqueResult)
    ELSE LET key == Head(order)
             value == grouped[key]
         IN  IF Len(value) > 0
             THEN Failed(NotUnique(fieldName))
             ELSE UniqueLoopOffByOne(grouped, Tail(order), fieldName,
                                     Put(uniqueResult, key, value[1]))

\* for key, value := range grouped, the keys coming in the sequence order.
RECURSIVE UniqueLoop(_, _, _, _)
UniqueLoop(grouped, order, fieldName, uniqueResult) ==
    IF order = <<>>
    THEN Grouped(uniqueResult)
    ELSE LET key == Head(order)
             value == grouped[key]
         IN  IF Len(value) > 1
             THEN Failed(NotUnique(fieldName))
             ELSE UniqueLoop(grouped, Tail(order), fieldName, Put(uniqueResult, key, value[1]))

\* The iteration order of a map is not specified: any enumeration of its keys.
Orders(m) ==
    {order \in [1..Cardinality(DOMAIN m) -> DOMAIN m] :
        \A i, j \in 1..Cardinality(DOMAIN m) : i # j => order[i] # order[j]}

GroupBy1By1TakesFirst(slice, fieldName, K, order) ==
    LET grouped == GroupByLoop(slice, fieldName, K, EmptyMap)
    IN  IF grouped.panicked \/ grouped.err # NoError
        THEN grouped
        ELSE Grouped([k \in DOMAIN grouped.val |-> grouped.val[k][1]])

\* The first loop is the loop of GroupBy; order is the order in which the
\* second loop meets the keys of grouped.
GroupBy1By1(slice, fieldName, K, order) ==
    LET grouped == GroupByLoop(slice, fieldName, K, EmptyMap)
    IN  IF grouped.panicked \/ grouped.err # NoError
        THEN grouped
        ELSE UniqueLoop(grouped.val, order, fieldName, EmptyMap)

(***************************************************************************)
(* The slices that are grouped, of the Go type                             *)
(*   Person struct { Name string; Age int; Layer2 Layer2 }                 *)
(* The i-th person of a slice carries the i-th name, so that the elements  *)
(* of a slice differ; the ages are free and the nested Layer2.Age is the   *)
(* age counted down from MaxKey.                                           *)
(***************************************************************************)
MaxGroupSegs == 2    \* most segments in a field path given to GroupBy

PersonNames == <<"Alice", "Bob", "Charlie", "Dave", "Erin", "Frank">>

Person(i, age) ==
    StructValue("Person", [Name |-> StringValue(PersonNames[i]), Age |-> IntValue(age),
                           Layer2 |-> Layer2(MaxKey - age)])

People(ages) == [i \in 1..Len(ages) |-> Person(i, ages[i])]

GroupNames == {"Name", "Age", "Layer2", "Nope"}

GroupPaths == {Join(segments) : segments \in SeqsUpTo(GroupNames, MaxGroupSegs)}

KeyTypes == {"int", "string", "Layer2"}

Outcome(out) ==
    IF out.panicked
    THEN pc' = "panicked" /\ ret' = NoRet
    ELSE /\ pc' = "returned"
         /\ ret' = [val |-> out.val, nil |-> out.nil, err |-> out.err, ref |-> "fresh"]

CallGroupBy ==
    /\ pc = "idle"
    /\ \E ages \in SeqsUpTo(Keys, MaxLen), fieldName \in GroupPaths, K \in KeyTypes :
          /\ call' = [op |-> "GroupBy", source |-> People(ages), fieldName |-> fieldName,
                      K |-> K]
          /\ mem' = People(ages)
          /\ Outcome(GroupBy(People(ages), fieldName, K))

CallGroupBy1By1 ==
    /\ pc = "idle"
    /\ \E ages \in SeqsUpTo(Keys, MaxLen), fieldName \in GroupPaths, K \in KeyTypes :
          LET grouped == GroupByLoop(People(ages), fieldName, K, EmptyMap)
          IN  \E order \in Orders(IF grouped.panicked THEN EmptyMap ELSE grouped.val) :
                 /\ call' = [op |-> "GroupBy1By1", source |-> People(ages),
                             fieldName |-> fieldName, K |-> K, order |-> order]
                 /\ mem' = People(ages)
                 /\ Outcome(GroupBy1By1(People(ages), fieldName, K, order))

(***************************************************************************)
(* The operations on a map.  A map is a function from its keys; the order  *)
(* "for key := range source" visits them in is any enumeration of them.    *)
(* The maps have int keys on both sides of a change in the number of       *)
(* digits and one string key that prints like one of the ints; the mapping *)
(* function joins key and value, as key + " " + strconv.Itoa(value), and   *)
(* its fallible form fails on a set of keys.                               *)
(***************************************************************************)
MaxMapKey == 1

MapKeys == {IntKey(9 + i) : i \in 0..MaxMapKey} \cup {StringKey(Digits(10))}

Maps == UNION {[keys -> Keys] : keys \in SUBSET MapKeys}

KeyAndValue(key, value) == [key |-> key, value |-> value]

KeyCause(key) == [kind |-> "callback failed", at |-> key]

InvokeOnKey(mappingFunc, key, value) ==
    IF key \in mappingFunc.fails
    THEN [res |-> <<>>, err |-> KeyCause(key)]
    ELSE [res |-> KeyAndValue(key, value), err |-> NoError]

WrapKey(err, key) ==
    [kind |-> "error mapping at key", key |-> Sprintf(key), cause |-> err]

RECURSIVE RangeKeys(_, _)
RangeKeys(order, keys) ==
    IF order = <<>> THEN keys ELSE RangeKeys(Tail(order), Append(keys, Head(order)))

\* Every outcome of MapHashMapToList when the map is iterated in this order.
MapHashMapToList(source, order) ==
    LET keys == RangeKeys(order, <<>>)
    IN  {Map(sortedKeys, [key \in DOMAIN source |-> KeyAndValue(key, source[key])]) :
            sortedKeys \in SortSlice(keys, "sprintf")}

CallMapHashMapToList ==
    /\ pc = "idle"
    /\ \E source \in Maps :
          \E order \in Orders(source) :
             /\ call' = [op |-> "MapHashMapToList", source |-> source, order |-> order]
             /\ mem' = source
             /\ \E result \in MapHashMapToList(source, order) :
                   ret' = [val |-> result, nil |-> FALSE, err |-> NoError, ref |-> "fresh"]
    /\ pc' = "returned"

RECURSIVE ListWithErrorLoop(_, _, _, _, _)
ListWithErrorLoop(source, mappingFunc, sortedKeys, result, invoked) ==
    IF sortedKeys = <<>>
    THEN [val |-> result, nil |-> FALSE, err |-> NoError, invoked |-> invoked]
    ELSE LET key == Head(sortedKeys)
             out == InvokeOnKey(mappingFunc, key, source[key])
         IN  IF out.err # NoError
             THEN [val |-> <<>>, nil |-> TRUE, err |-> WrapKey(out.err, key),
                   invoked |-> Append(invoked, key)]
             ELSE ListWithErrorLoop(source, mappingFunc, Tail(sortedKeys),
                                    Append(result, out.res), Append(invoked, key))

MapHashMapToListUnsorted(source, mappingFunc, order) ==
    {ListWithErrorLoop(source, mappingFunc, RangeKeys(order, <<>>), <<>>, <<>>)}

\* Every outcome of MapHashMapToListReturnWithError for this iteration order.
MapHashMapToListReturnWithError(source, mappingFunc, order) ==
    LET keys == RangeKeys(order, <<>>)
    IN  {ListWithErrorLoop(source, mappingFunc, sortedKeys, <<>>, <<>>) :
            sortedKeys \in SortSlice(keys, "sprintf")}

CallMapHashMapToListReturnWithError ==
    /\ pc = "idle"
    /\ \E source \in Maps :
          \E order \in Orders(source), fails \in SUBSET DOMAIN source :
             /\ call' = [op |-> "MapHashMapToListReturnWithError", source |-> source,
                         order |-> order, mappingFunc |-> [fails |-> fails]]
             /\ mem' = source
             /\ \E out \in MapHashMapToListReturnWithError(source, [fails |-> fails], order) :
                   ret' = [val |-> out.val, nil |-> out.nil, err |-> out.err, ref |-> "fresh",
                           invoked |-> out.invoked]
    /\ pc' = "returned"

(***************************************************************************)
(* MapToHashMap: key, value := mappingFunc(item); result[key] = value, for *)
(* each item in turn, a later store under a key replacing an earlier one.  *)
(* The mapping functions give the item as the value and, as the key, the   *)
(* item or its remainder by two, so that different items share a key.      *)
(***************************************************************************)
KeyFuncs == {"item", "remainder"}

KeyFor(mappingFunc, item) == IF mappingFunc = "item" THEN item ELSE item % 2

RECURSIVE MapToHashMapLoop(_, _, _)
MapToHashMapLoop(source, mappingFunc, result) ==
    IF source = <<>>
    THEN result
    ELSE MapToHashMapLoop(Tail(source), mappingFunc,
                          Put(result, KeyFor(mappingFunc, Head(source)), Head(source)))

MapToHashMapKeepingFirst(source, mappingFunc) ==
    MapToHashMapLoop([i \in 1..Len(source) |-> source[Len(source) + 1 - i]], mappingFunc,
                     EmptyMap)

MapToHashMap(source, mappingFunc) ==
    MapToHashMapLoop(source, mappingFunc, EmptyMap)

CallMapToHashMap ==
    /\ pc = "idle"
    /\ \E source \in SeqsUpTo(Elems, MaxLen), mappingFunc \in KeyFuncs :
          /\ call' = [op |-> "MapToHashMap", source |-> source, mappingFunc |-> mappingFunc]
          /\ mem' = source
          /\ ret' = [val |-> MapToHashMap(source, mappingFunc), nil |-> FALSE,
                     err |-> NoError, ref |-> "fresh"]
    /\ pc' = "returned"

\* MapHashMapToHashMap: result[key] = mappingFunc(key, value) for each entry.
RECURSIVE HashMapLoop(_, _, _)
HashMapLoop(source, order, result) ==
    IF order = <<>>
    THEN result
    ELSE HashMapLoop(source, Tail(order),
                     Put(result, Head(order), KeyAndValue(Head(order), source[Head(order)])))

MapHashMapSkippingFirst(source, order) ==
    IF order = <<>> THEN EmptyMap ELSE HashMapLoop(source, Tail(order), EmptyMap)

MapHashMapToHashMap(source, order) ==
    HashMapLoop(source, order, EmptyMap)

CallMapHashMapToHashMap ==
    /\ pc = "idle"
    /\ \E source \in Maps :
          \E order \in Orders(source) :
             /\ call' = [op |-> "MapHashMapToHashMap", source |-> source, order |-> order]
             /\ mem' = source
             /\ ret' = [val |-> MapHashMapToHashMap(source, order), nil |-> FALSE,
                        err |-> NoError, ref |-> "fresh"]
    /\ pc' = "returned"

RECURSIVE HashMapWithErrorLoop(_, _, _, _)
HashMapWithErrorLoop(source, mappingFunc, order, result) ==
    IF order = <<>>
    THEN [val |-> result, nil |-> FALSE, err |-> NoError]
    ELSE LET key == Head(order)
             out == InvokeOnKey(mappingFunc, key, source[key])
         IN  IF out.err # NoError
             THEN [val |-> EmptyMap, nil |-> TRUE, err |-> WrapKey(out.err, key)]
             ELSE HashMapWithErrorLoop(source, mappingFunc, Tail(order),
                                       Put(result, key, out.res))

MapHashMapDroppingFailures(source, mappingFunc, order) ==
    LET kept == DOMAIN source \ mappingFunc.fails
    IN  [val |-> [key \in kept |-> KeyAndValue(key, source[key])], nil |-> FALSE,
         err |-> NoError]

MapHashMapToHashMapReturnWithError(source, mappingFunc, order) ==
    HashMapWithErrorLoop(source, mappingFunc, order, EmptyMap)

CallMapHashMapToHashMapReturnWithError ==
    /\ pc = "idle"
    /\ \E source \in Maps :
          \E order \in Orders(source), fails \in SUBSET DOMAIN source :
             LET out == MapHashMapToHashMapReturnWithError(source, [fails |-> fails], order)
             IN  /\ call' = [op |-> "MapHashMapToHashMapReturnWithError", source |-> source,
                             order |-> order, mappingFunc |-> [fails |-> fails]]
                 /\ mem' = source
                 /\ ret' = [val |-> out.val, nil |-> out.nil, err |-> out.err, ref |-> "fresh"]
    /\ pc' = "returned"

(***************************************************************************)
(* CloneMap and CloneList, and what the caller may do afterwards.  Both    *)
(* make a container of their own (make(map[K]V, len(source)), make([]T,    *)
(* len(source))) and copy the entries into it; a nil source has no entry.  *)
(* What a call returns says, beside the value, whether the container is    *)
(* one the function made ("fresh") or the caller's own ("input").  After   *)
(* the call the caller writes once, to the clone or to the original; a     *)
(* write to a container shows in the other one when they are the same      *)
(* container, except that an append never changes the elements a slice of  *)
(* the old length shows.  Storing into a nil map panics, so the caller     *)
(* does not do that.                                                       *)
(***************************************************************************)
RECURSIVE CloneMapLoop(_, _, _)
CloneMapLoop(source, order, clone) ==
    IF order = <<>>
    THEN clone
    ELSE CloneMapLoop(source, Tail(order), Put(clone, Head(order), source[Head(order)]))

CloneMapSharing(source, order) ==
    [val |-> source, nil |-> FALSE, ref |-> "input"]

CloneMap(source, order) ==
    [val |-> CloneMapLoop(source, order, EmptyMap), nil |-> FALSE, ref |-> "fresh"]

CallCloneMap ==
    /\ pc = "idle"
    /\ \E source \in Maps, isNil \in BOOLEAN :
          \E order \in Orders(source) :
             LET out == CloneMap(source, order)
             IN  /\ isNil => source = EmptyMap
                 /\ call' = [op |-> "CloneMap", source |-> source, isNil |-> isNil,
                             order |-> order, wrote |-> "nothing"]
                 /\ mem' = source
                 /\ ret' = [val |-> out.val, nil |-> out.nil, err |-> NoError, ref |-> out.ref]
    /\ pc' = "returned"

CloneListSharing(source) ==
    [val |-> source, nil |-> FALSE, ref |-> "input"]

CloneList(source) ==
    [val |-> [i \in 1..Len(source) |-> source[i]], nil |-> FALSE, ref |-> "fresh"]

CallCloneList ==
    /\ pc = "idle"
    /\ \E source \in SeqsUpTo(Elems, MaxLen), isNil \in BOOLEAN :
          LET out == CloneList(source)
          IN  /\ isNil => source = <<>>
              /\ call' = [op |-> "CloneList", source |-> source, isNil |-> isNil,
                          wrote |-> "nothing"]
              /\ mem' = source
              /\ ret' = [val |-> out.val, nil |-> out.nil, err |-> NoError, ref |-> out.ref]
    /\ pc' = "returned"

CloneOps == {"CloneMap", "CloneList"}

MapWrites(m, isNil) ==
    {[kind |-> "put", key |-> key, value |-> value] : key \in (IF isNil THEN {} ELSE MapKeys),
                                                       value \in Keys}
    \cup {[kind |-> "delete", key |-> key] : key \in DOMAIN m}

ListWrites(list) ==
    {[kind |-> "overwrite", index |-> i, value |-> x] : i \in 1..Len(list), x \in Elems}
    \cup {[kind |-> "append", value |-> x] : x \in Elems}

Written(container, write) ==
    IF write.kind = "put" THEN Put(container, write.key, write.value)
    ELSE IF write.kind = "delete"
         THEN [key \in DOMAIN container \ {write.key} |-> container[key]]
    ELSE IF write.kind = "overwrite"
         THEN [container EXCEPT ![write.index] = write.value]
    ELSE Append(container, write.value)

Shared(container, write) ==
    IF write.kind = "append" THEN container ELSE Written(container, write)

WriteToClone ==
    /\ pc = "returned"
    /\ call.op \in CloneOps
    /\ call.wrote = "nothing"
    /\ \E write \in (IF call.op = "CloneMap" THEN MapWrites(ret.val, ret.nil)
                                             ELSE ListWrites(ret.val)) :
          /\ ret' = [ret EXCEPT !.val = Written(ret.val, write)]
          /\ mem' = IF ret.ref = "input" THEN Shared(mem, write) ELSE mem
    /\ call' = [call EXCEPT !.wrote = "clone"]
    /\ UNCHANGED pc

WriteToOriginal ==
    /\ pc = "returned"
    /\ call.op \in CloneOps
    /\ call.wrote = "nothing"
    /\ \E write \in (IF call.op = "CloneMap" THEN MapWrites(mem, call.isNil)
                                             ELSE ListWrites(mem)) :
          /\ mem' = Written(mem, write)
          /\ ret' = IF ret.ref = "input"
                    THEN [ret EXCEPT !.val = Shared(ret.val, write)]
                    ELSE ret
    /\ call' = [call EXCEPT !.wrote = "original"]
    /\ UNCHANGED pc

(***************************************************************************)
(* Case: converted, ok := source.(T).  source is an interface{}: nil, or a *)
(* value with its dynamic type.  For a T that is not an interface type the *)
(* assertion holds when the dynamic type is identical to T (a named type   *)
(* MyInt is not int); for an interface type T it holds when the dynamic    *)
(* type implements T, and the converted value is an interface holding the  *)
(* same value.  A nil source fails every assertion.  The pointer returned  *)
(* is given by what it points to.                                          *)
(***************************************************************************)
ConcreteTypes == {"int", "MyInt", "string", "TempStruct", "TempStruct2"}
DynamicTypes == ConcreteTypes \cup {"errorString"}
InterfaceTypes == {"any", "error"}

Implements(type, T) == T = "any" \/ (T = "error" /\ type = "errorString")

NilInterface == [type |-> "nil"]
Dynamic(type, content) == [type |-> type, content |-> content]

Sources == {NilInterface} \cup {Dynamic(type, content) : type \in DynamicTypes, content \in Elems}

TypeAssert(source, T) ==
    IF source = NilInterface THEN FALSE
    ELSE IF T \in InterfaceTypes THEN Implements(source.type, T)
    ELSE source.type = T

AssertionFailed == [kind |-> "type assertion failed"]

CaseByKind(source, T) ==
    IF source # NilInterface /\ (Implements(source.type, T) \/ source.type = T
                                    \/ (source.type = "MyInt" /\ T = "int"))
    THEN [val |-> source, nil |-> FALSE, err |-> NoError]
    ELSE [val |-> <<>>, nil |-> TRUE, err |-> AssertionFailed]

Case(source, T) ==
    IF ~TypeAssert(source, T)
    THEN [val |-> <<>>, nil |-> TRUE, err |-> AssertionFailed]
    ELSE [val |-> source, nil |-> FALSE, err |-> NoError]

CallCase ==
    /\ pc = "idle"
    /\ \E source \in Sources, T \in ConcreteTypes \cup InterfaceTypes :
          LET out == Case(source, T)
          IN  /\ call' = [op |-> "Case", source |-> source, T |-> T]
              /\ mem' = <<>>
              /\ ret' = [val |-> out.val, nil |-> out.nil, err |-> out.err, ref |-> "fresh"]
    /\ pc' = "returned"

(***************************************************************************)
(* The caller drops the outcome and is ready for another call.             *)
(***************************************************************************)
Done ==
    /\ pc # "idle"
    /\ pc' = "idle"
    /\ call' = NoCall
    /\ mem' = <<>>
    /\ ret' = NoRet

Init ==
    /\ pc = "idle"
    /\ call = NoCall
    /\ mem = <<>>
    /\ ret = NoRet

(***************************************************************************)
(* The sequence operations.                                                *)
(***************************************************************************)
NextSeq ==
    \/ CallMap
    \/ CallSort
    \/ CallDistinctFunc
    \/ CallForEachWithError
    \/ CallMapReturnWithError
    \/ CallDistinct
    \/ CallFilter
    \/ CallReduce
    \/ CallFlatMap
    \/ Done

SpecSeq == Init /\ [][NextSeq]_vars

(***************************************************************************)
(* The field accessor.                                                     *)
(***************************************************************************)
NextField ==
    \/ CallGetField
    \/ Done

SpecField == Init /\ [][NextField]_vars

(***************************************************************************)
(* The grouping operations.                                                *)
(***************************************************************************)
NextGroup ==
    \/ CallGroupBy
    \/ CallGroupBy1By1
    \/ Done

SpecGroup == Init /\ [][NextGroup]_vars

(***************************************************************************)
(* The map operations.                                                     *)
(***************************************************************************)
NextMap ==
    \/ CallMapToHashMap
    \/ CallMapHashMapToHashMap
    \/ CallMapHashMapToList
    \/ CallMapHashMapToListReturnWithError
    \/ CallMapHashMapToHashMapReturnWithError
    \/ Done

SpecMap == Init /\ [][NextMap]_vars

(***************************************************************************)
(* The copies, and the caller writing after the call.                      *)
(***************************************************************************)
NextClone ==
    \/ CallCloneMap
    \/ CallCloneList
    \/ WriteToClone
    \/ WriteToOriginal
    \/ Done

SpecClone == Init /\ [][NextClone]_vars

(***************************************************************************)
(* The type assertion.                                                     *)
(***************************************************************************)
NextCase ==
    \/ CallCase
    \/ Done

SpecCase == Init /\ [][NextCase]_vars

Returned(op) == pc = "returned" /\ call.op = op

(***************************************************************************)
(* C1: Map(s, f) has the length of s and its i-th element is f(s[i]).      *)
(***************************************************************************)
C1_MapElementwise ==
    Returned("Map") =>
        /\ Len(ret.val) = Len(call.source)
        /\ \A i \in 1..Len(call.source) : ret.val[i] = call.transform[call.source[i]]

C1_Witness ==
    /\ Returned("Map")
    /\ Len(call.source) = MaxLen
    /\ \E i \in 1..Len(call.source) : call.transform[call.source[i]] # call.source[i]

(***************************************************************************)
(* C2: Sort is stable: two elements the comparator does not order keep     *)
(* their relative input order in the returned slice.                       *)
(***************************************************************************)
PositionIn(list, x) == CHOOSE i \in 1..Len(list) : list[i] = x

Tied(less, x, y) == ~Less(less, x, y) /\ ~Less(less, y, x)

C2_SortStable ==
    Returned("Sort") =>
        \A i \in 1..Len(call.source), j \in 1..Len(call.source) :
            (i < j /\ Tied(call.less, call.source[i], call.source[j]))
                => PositionIn(ret.val, call.source[i]) < PositionIn(ret.val, call.source[j])

(***************************************************************************)
(* C3: no operation mutates its input: after a call the caller's slice     *)
(* holds what it held at the call, and the result is a new container.      *)
(***************************************************************************)
C3_InputNotMutated ==
    pc = "returned" => (mem = call.source /\ ret.ref # "input")

(***************************************************************************)
(* C4: DistinctFunc keeps an element iff the comparator matches it with    *)
(* no element already kept.                                                *)
(***************************************************************************)
RECURSIVE PairwiseDistinct(_, _, _)
PairwiseDistinct(slice, compareFunc, kept) ==
    IF slice = <<>>
    THEN kept
    ELSE IF \E k \in 1..Len(kept) : Compare(compareFunc, kept[k], Head(slice))
         THEN PairwiseDistinct(Tail(slice), compareFunc, kept)
         ELSE PairwiseDistinct(Tail(slice), compareFunc, Append(kept, Head(slice)))

C4_DistinctFuncPairwise ==
    Returned("DistinctFunc") =>
        ret.val = PairwiseDistinct(call.source, call.compareFunc, <<>>)

(***************************************************************************)
(* Reading a path off nested records, segment by segment.                  *)
(***************************************************************************)
\* Some segment names a field the record reached at that point does not have.
RECURSIVE MissingSegment(_, _)
MissingSegment(v, names) ==
    /\ names # <<>>
    /\ v.kind = "struct"
    /\ \/ FieldByName(v, Head(names)) = Invalid
       \/ MissingSegment(FieldByName(v, Head(names)), Tail(names))

\* Every segment names a field of the record reached, records all the way.
RECURSIVE RecordPath(_, _)
RecordPath(v, names) ==
    \/ names = <<>>
    \/ /\ v.kind = "struct"
       /\ FieldByName(v, Head(names)) # Invalid
       /\ RecordPath(FieldByName(v, Head(names)), Tail(names))

RECURSIVE ValueAt(_, _)
ValueAt(v, names) ==
    IF names = <<>> THEN v ELSE ValueAt(v.fields[Head(names)[1]], Tail(names))

(***************************************************************************)
(* C5: when GetField meets a slice with segments still to resolve, it      *)
(* returns the slice of what the whole remaining path resolves to on each  *)
(* element.  Stated for a path whose first segment names the slice field.  *)
(***************************************************************************)
PerElement(elems, names) ==
    ValidValues([i \in 1..Len(elems) |-> GetFieldLoop(elems[i], names)])

C5_BroadcastRemainingPath ==
    LET names == Split(call.fieldName)
        field == FieldByName(call.element, Head(names))
    IN  (Returned("GetField") /\ Len(names) >= 2 /\ field.kind = "slice"
            /\ \A i \in 1..Len(field.elems) : ~GetFieldLoop(field.elems[i], Tail(names)).panicked)
        => ret.val = SliceValue(PerElement(field.elems, Tail(names)))

(***************************************************************************)
(* C6: a path with a segment that names no field of the record reached     *)
(* makes GetField return the invalid value, and never crash.               *)
(***************************************************************************)
C6_MissingSegmentIsInvalid ==
    (pc # "idle" /\ call.op = "GetField"
        /\ MissingSegment(call.element, Split(call.fieldName)))
    => (pc = "returned" /\ ret.val = Invalid)

(***************************************************************************)
(* C7: GroupBy and GroupBy1By1 over a non-empty slice, with a path some    *)
(* segment of which does not exist on the elements, return nil and the     *)
(* not-found error naming the field.                                       *)
(***************************************************************************)
GroupOps == {"GroupBy", "GroupBy1By1"}

C7_MissingPathIsNotFound ==
    (pc # "idle" /\ call.op \in GroupOps /\ call.source # <<>>
        /\ MissingSegment(call.source[1], Split(call.fieldName)))
    => (pc = "returned" /\ ret.nil /\ ret.err = NotExist(call.fieldName))

(***************************************************************************)
(* C8: when the value at the path is not of the key type K, GroupBy and    *)
(* GroupBy1By1 return an error; they do not crash.                         *)
(***************************************************************************)
C8_KeyTypeMismatchIsError ==
    LET names == Split(call.fieldName)
    IN  (pc # "idle" /\ call.op \in GroupOps /\ call.source # <<>>
            /\ names # <<>> /\ RecordPath(call.source[1], names)
            /\ TypeOf(ValueAt(call.source[1], names)) # call.K)
        => (pc = "returned" /\ ret.err # NoError)

(***************************************************************************)
(* C9: a successful GroupBy partitions its input: the keys of the result   *)
(* are the values found at the path, the group of a key lists, in input    *)
(* order, exactly the elements with that value, every element is in one    *)
(* group only, no group is empty and the sizes add up to the input length. *)
(***************************************************************************)
RECURSIVE SumOfSizes(_, _)
SumOfSizes(m, keys) ==
    IF keys = {} THEN 0
    ELSE LET k == CHOOSE x \in keys : TRUE
         IN  Len(m[k]) + SumOfSizes(m, keys \ {k})

Holds(group, e) == \E n \in 1..Len(group) : group[n] = e

C9_GroupByPartitions ==
    (Returned("GroupBy") /\ ret.err = NoError) =>
        LET names == Split(call.fieldName)
            KeyOf(e) == ValueAt(e, names)
            source == call.source
        IN  /\ ~ret.nil
            /\ DOMAIN ret.val = {KeyOf(source[i]) : i \in 1..Len(source)}
            /\ \A k \in DOMAIN ret.val :
                  /\ ret.val[k] = SelectSeq(source, LAMBDA e : KeyOf(e) = k)
                  /\ ret.val[k] # <<>>
            /\ \A i \in 1..Len(source) :
                  {k \in DOMAIN ret.val : Holds(ret.val[k], source[i])} = {KeyOf(source[i])}
            /\ SumOfSizes(ret.val, DOMAIN ret.val) = Len(source)

C9_Witness ==
    /\ Returned("GroupBy")
    /\ ret.err = NoError
    /\ Len(call.source) = MaxLen
    /\ Cardinality(DOMAIN ret.val) = 2
    /\ \E k \in DOMAIN ret.val :
          /\ Len(ret.val[k]) = 2
          /\ ret.val[k][1] = call.source[1]
          /\ ret.val[k][2] = call.source[3]

(***************************************************************************)
(* C10: GroupBy1By1 returns nil and the not-unique error naming the field  *)
(* whenever two input elements have the same key (the same value of type   *)
(* K at the path), in whatever order the groups are inspected.             *)
(***************************************************************************)
SharedKey(source, names, K) ==
    /\ names # <<>>
    /\ \E i, j \in 1..Len(source) :
          /\ i < j
          /\ RecordPath(source[i], names)
          /\ RecordPath(source[j], names)
          /\ TypeOf(ValueAt(source[i], names)) = K
          /\ ValueAt(source[i], names) = ValueAt(source[j], names)

C10_SharedKeyIsNotUnique ==
    (pc # "idle" /\ call.op = "GroupBy1By1"
        /\ SharedKey(call.source, Split(call.fieldName), call.K))
    => (pc = "returned" /\ ret.nil /\ ret.val = EmptyMap
            /\ ret.err = NotUnique(call.fieldName))

\* Three elements, two of one key; the group inspected first is the single one.
C10_Witness ==
    /\ Returned("GroupBy1By1")
    /\ SharedKey(call.source, Split(call.fieldName), call.K)
    /\ Len(call.source) = MaxLen
    /\ Len(call.order) = 2
    /\ \E i \in 1..Len(call.source) :
          /\ ValueAt(call.source[i], Split(call.fieldName)) = call.order[1]
          /\ \A j \in 1..Len(call.source) :
                j # i => ValueAt(call.source[j], Split(call.fieldName)) # call.order[1]
    /\ ret.err = NotUnique(call.fieldName)

(***************************************************************************)
(* C11: when the elements have pairwise distinct keys of type K at the     *)
(* path, GroupBy1By1 succeeds and its result has one entry per element,    *)
(* from the element's key to the element.                                  *)
(***************************************************************************)
DistinctKeys(source, names, K) ==
    /\ \A i \in 1..Len(source) :
          /\ RecordPath(source[i], names)
          /\ TypeOf(ValueAt(source[i], names)) = K
    /\ \A i, j \in 1..Len(source) :
          i < j => ValueAt(source[i], names) # ValueAt(source[j], names)

C11_DistinctKeysOneEntryEach ==
    (pc # "idle" /\ call.op = "GroupBy1By1"
        /\ DistinctKeys(call.source, Split(call.fieldName), call.K))
    => /\ pc = "returned"
       /\ ret.err = NoError
       /\ ~ret.nil
       /\ DOMAIN ret.val =
             {ValueAt(call.source[i], Split(call.fieldName)) : i \in 1..Len(call.source)}
       /\ Cardinality(DOMAIN ret.val) = Len(call.source)
       /\ \A i \in 1..Len(call.source) :
             ret.val[ValueAt(call.source[i], Split(call.fieldName))] = call.source[i]

C11_Witness ==
    /\ Returned("GroupBy1By1")
    /\ DistinctKeys(call.source, Split(call.fieldName), call.K)
    /\ Len(call.source) = MaxLen
    /\ Cardinality(DOMAIN ret.val) = MaxLen

(***************************************************************************)
(* The first position of a slice whose item a callback fails on, as a      *)
(* zero-based index; the callback fails somewhere when there is one.       *)
(***************************************************************************)
FailsSomewhere(source, callback) ==
    \E i \in 1..Len(source) : source[i] \in callback.fails

FirstFailure(source, callback) ==
    (CHOOSE i \in 1..Len(source) :
        /\ source[i] \in callback.fails
        /\ \A j \in 1..(i - 1) : source[j] \notin callback.fails) - 1

UpTo(idx) == [i \in 1..(idx + 1) |-> i - 1]

(***************************************************************************)
(* C12: when the mapping function fails on some element,                   *)
(* MapReturnWithError returns nil and an error that names the smallest     *)
(* failing index and wraps the cause, and the function is invoked on no    *)
(* element after that index.                                               *)
(***************************************************************************)
C12_FirstFailingIndex ==
    (Returned("MapReturnWithError") /\ FailsSomewhere(call.source, call.mappingFunc)) =>
        LET first == FirstFailure(call.source, call.mappingFunc)
        IN  /\ ret.nil
            /\ ret.val = <<>>
            /\ ret.err.kind = "error mapping at index"
            /\ ret.err.index = first
            /\ ret.err.cause = Cause(call.source[first + 1])
            /\ ret.invoked = UpTo(first)

\* The function fails in the middle and would fail again on the last element.
C12_Witness ==
    /\ Returned("MapReturnWithError")
    /\ Len(call.source) = MaxLen
    /\ call.source[1] \notin call.mappingFunc.fails
    /\ call.source[2] \in call.mappingFunc.fails
    /\ call.source[MaxLen] \in call.mappingFunc.fails
    /\ ret.err.index = 1

(***************************************************************************)
(* C13: ForEachWithError invokes the action on the elements in order up to *)
(* and including the first one whose action fails, returns exactly that    *)
(* error, and returns nil iff no action failed.                            *)
(***************************************************************************)
C13_StopsAtFirstError ==
    Returned("ForEachWithError") =>
        /\ (ret.err = NoError) <=> ~FailsSomewhere(call.source, call.action)
        /\ IF FailsSomewhere(call.source, call.action)
           THEN LET first == FirstFailure(call.source, call.action)
                IN  /\ ret.err = Cause(call.source[first + 1])
                    /\ ret.invoked = UpTo(first)
           ELSE ret.invoked = UpTo(Len(call.source) - 1)

C13_Witness ==
    /\ Returned("ForEachWithError")
    /\ Len(call.source) = MaxLen
    /\ call.source[1] \notin call.action.fails
    /\ call.source[2] \in call.action.fails
    /\ call.source[MaxLen] \in call.action.fails
    /\ call.source[2] # call.source[MaxLen]
    /\ Len(ret.invoked) = 2

(***************************************************************************)
(* String a comes before string b: at the first position where they        *)
(* differ a has the smaller character, or a ends there and b goes on.      *)
(***************************************************************************)
Precedes(a, b) ==
    \E n \in 0..Len(a) :
        /\ n <= Len(b)
        /\ \A i \in 1..n : a[i] = b[i]
        /\ \/ n = Len(a) /\ n < Len(b)
           \/ n < Len(a) /\ n < Len(b) /\ a[n + 1] < b[n + 1]

Ascending(keys) ==
    \A i, j \in 1..Len(keys) : i < j => ~Precedes(Sprintf(keys[j]), Sprintf(keys[i]))

(***************************************************************************)
(* C14: MapHashMapToList returns one result per key of the map, the        *)
(* mapping function's result for that key and its value, arranged in       *)
(* ascending order of the keys' string representations, for every order    *)
(* the map is iterated in.                                                 *)
(***************************************************************************)
C14_OneResultPerKeyInStringOrder ==
    Returned("MapHashMapToList") =>
        /\ ~ret.nil
        /\ Len(ret.val) = Cardinality(DOMAIN call.source)
        /\ \A key \in DOMAIN call.source :
              Cardinality({i \in 1..Len(ret.val) :
                  ret.val[i] = KeyAndValue(key, call.source[key])}) = 1
        /\ Ascending([i \in 1..Len(ret.val) |-> ret.val[i].key])

\* The map is iterated in numeric key order, the reverse of the string order.
C14_Witness ==
    /\ Returned("MapHashMapToList")
    /\ {IntKey(9), IntKey(10)} \subseteq DOMAIN call.source
    /\ \E i, j \in 1..Len(call.order) :
          i < j /\ call.order[i] = IntKey(9) /\ call.order[j] = IntKey(10)
    /\ \E i, j \in 1..Len(ret.val) :
          i < j /\ ret.val[i].key = IntKey(10) /\ ret.val[j].key = IntKey(9)

(***************************************************************************)
(* C15: MapHashMapToListReturnWithError invokes the mapping function on    *)
(* the keys in ascending order of their string representations; when it    *)
(* fails for some keys the result is nil, the error names the first        *)
(* failing key in that order and wraps its cause, and no key that comes    *)
(* later in that order is invoked.                                         *)
(***************************************************************************)
FailingKeys == DOMAIN call.source \cap call.mappingFunc.fails

C15_FirstFailingKeyInStringOrder ==
    Returned("MapHashMapToListReturnWithError") =>
        /\ Ascending(ret.invoked)
        /\ \A i, j \in 1..Len(ret.invoked) : i # j => ret.invoked[i] # ret.invoked[j]
        /\ IF FailingKeys = {}
           THEN /\ ret.err = NoError
                /\ {ret.invoked[i] : i \in 1..Len(ret.invoked)} = DOMAIN call.source
           ELSE \E first \in FailingKeys :
                   /\ \A key \in FailingKeys : ~Precedes(Sprintf(key), Sprintf(first))
                   /\ ret.nil
                   /\ ret.val = <<>>
                   /\ ret.err = WrapKey(KeyCause(first), first)
                   /\ ret.invoked[Len(ret.invoked)] = first
                   /\ \A key \in DOMAIN call.source :
                         /\ Precedes(Sprintf(key), Sprintf(first)) =>
                               \E i \in 1..Len(ret.invoked) : ret.invoked[i] = key
                         /\ Precedes(Sprintf(first), Sprintf(key)) =>
                               \A i \in 1..Len(ret.invoked) : ret.invoked[i] # key

\* 9 and 10 both fail and the map is iterated with 9 first: the error names
\* 10, which prints before 9, and 9 is never invoked.
C15_Witness ==
    /\ Returned("MapHashMapToListReturnWithError")
    /\ {IntKey(9), IntKey(10)} \subseteq FailingKeys
    /\ call.order[1] = IntKey(9)
    /\ ret.err.key = Digits(10)
    /\ \A i \in 1..Len(ret.invoked) : ret.invoked[i] # IntKey(9)

(***************************************************************************)
(* C16: MapHashMapToHashMapReturnWithError returns an error iff the        *)
(* mapping function fails for some key; then the result is nil and the     *)
(* error names a key the function failed for, for every iteration order;   *)
(* otherwise the result has the keys of the input, each with the mapping   *)
(* function's result for that key and its value.                           *)
(***************************************************************************)
C16_ErrorIffSomeKeyFails ==
    Returned("MapHashMapToHashMapReturnWithError") =>
        /\ (ret.err # NoError) <=> (FailingKeys # {})
        /\ IF FailingKeys # {}
           THEN /\ ret.nil
                /\ ret.val = EmptyMap
                /\ \E key \in FailingKeys : ret.err = WrapKey(KeyCause(key), key)
           ELSE /\ ~ret.nil
                /\ DOMAIN ret.val = DOMAIN call.source
                /\ \A key \in DOMAIN call.source :
                      ret.val[key] = KeyAndValue(key, call.source[key])

\* Two keys fail and the error names the one that prints later.
C16_Witness ==
    /\ Returned("MapHashMapToHashMapReturnWithError")
    /\ Cardinality(FailingKeys) = 2
    /\ \E key \in FailingKeys : Precedes(Sprintf(key), ret.err.key)

C16_SuccessWitness ==
    /\ Returned("MapHashMapToHashMapReturnWithError")
    /\ FailingKeys = {}
    /\ DOMAIN ret.val = MapKeys

(***************************************************************************)
(* C17: Distinct returns each distinct value of the input once, in the     *)
(* order of first occurrence: no two elements of the result are equal, the *)
(* result has the values of the input, and a comes before b in the result  *)
(* iff a first occurs before b first occurs in the input.                  *)
(***************************************************************************)
FirstOccurrence(list, x) ==
    CHOOSE i \in 1..Len(list) : list[i] = x /\ \A j \in 1..(i - 1) : list[j] # x

Values(list) == {list[i] : i \in 1..Len(list)}

C17_DistinctFirstOccurrenceOrder ==
    Returned("Distinct") =>
        /\ \A i, j \in 1..Len(ret.val) : i # j => ret.val[i] # ret.val[j]
        /\ Values(ret.val) = Values(call.source)
        /\ \A i, j \in 1..Len(ret.val) :
              i < j <=> FirstOccurrence(call.source, ret.val[i])
                            < FirstOccurrence(call.source, ret.val[j])

\* A value is met, then another, then the first again.
C17_Witness ==
    /\ Returned("Distinct")
    /\ Len(call.source) = MaxLen
    /\ call.source[1] # call.source[2]
    /\ call.source[1] = call.source[MaxLen]
    /\ ret.val = <<call.source[1], call.source[2]>>

(***************************************************************************)
(* C18: Sort returns a permutation of its input ordered by the comparator: *)
(* the result has the elements of the input, each as many times, and the   *)
(* comparator places the second of no adjacent pair before the first.      *)
(***************************************************************************)
Count(list, x) == Cardinality({i \in 1..Len(list) : list[i] = x})

C18_SortOrderedPermutation ==
    Returned("Sort") =>
        /\ Len(ret.val) = Len(call.source)
        /\ \A x \in Values(call.source) \cup Values(ret.val) :
              Count(ret.val, x) = Count(call.source, x)
        /\ \A i \in 1..(Len(ret.val) - 1) :
              ~Less(call.less, ret.val[i + 1], ret.val[i])

\* The input is out of order, its first element among the misplaced.
C18_Witness ==
    /\ Returned("Sort")
    /\ Len(call.source) = MaxLen
    /\ Less(call.less, call.source[2], call.source[1])
    /\ ret.val # call.source

(***************************************************************************)
(* C19: Filter returns the elements of the input the predicate holds for,  *)
(* in their input order, and an empty slice that is not nil when the input *)
(* is empty or nil or nothing matches.                                     *)
(***************************************************************************)
C19_FilterSelectsInOrder ==
    Returned("Filter") =>
        LET Accepted(x) == x \in call.filterFunc
        IN  /\ ret.val = SelectSeq(call.source, Accepted)
            /\ ~ret.nil

C19_Witness ==
    /\ Returned("Filter")
    /\ Len(call.source) = MaxLen
    /\ Len(ret.val) = 2
    /\ call.source[2] \notin call.filterFunc
    /\ ret.val[1] # ret.val[2]

C19_NilInputWitness ==
    /\ Returned("Filter")
    /\ call.isNil
    /\ ret.val = <<>>
    /\ ~ret.nil

C19_NoMatchWitness ==
    /\ Returned("Filter")
    /\ Len(call.source) = MaxLen
    /\ call.filterFunc # {}
    /\ ret.val = <<>>
    /\ ~ret.nil

(***************************************************************************)
(* C20: Reduce folds from the left: its result for x1..xn, g and z is      *)
(* g(...g(g(z, x1), x2)..., xn), and for an empty sequence it is z.        *)
(***************************************************************************)
RECURSIVE FoldLeft(_, _, _)
FoldLeft(list, g, z) ==
    IF list = <<>>
    THEN z
    ELSE ReduceFunc(g, FoldLeft(SubSeq(list, 1, Len(list) - 1), g, z), list[Len(list)])

C20_ReduceFoldsLeft ==
    Returned("Reduce") =>
        /\ ret.val = FoldLeft(call.source, call.reduceFunc, call.initialValue)
        /\ call.source = <<>> => ret.val = call.initialValue

C20_Witness ==
    /\ Returned("Reduce")
    /\ call.reduceFunc = "numeral"
    /\ Len(call.source) = MaxLen
    /\ call.source[1] # call.source[MaxLen]
    /\ ret.val # ReduceBackwards(call.source, call.reduceFunc, call.initialValue)

C20_EmptyWitness ==
    /\ Returned("Reduce")
    /\ call.source = <<>>
    /\ ret.val = call.initialValue
    /\ call.initialValue # 0

(***************************************************************************)
(* C21: FlatMap returns the inner sequences one after the other, in outer  *)
(* order and each in its own order: its length is the sum of the inner     *)
(* lengths, and an empty inner sequence adds nothing.                      *)
(***************************************************************************)
RECURSIVE LengthBefore(_, _)
LengthBefore(source, i) ==
    IF i <= 1 THEN 0 ELSE LengthBefore(source, i - 1) + Len(source[i - 1])

C21_FlatMapConcatenates ==
    Returned("FlatMap") =>
        /\ ~ret.nil
        /\ Len(ret.val) = LengthBefore(call.source, Len(call.source) + 1)
        /\ \A i \in 1..Len(call.source) :
              \A j \in 1..Len(call.source[i]) :
                 ret.val[LengthBefore(call.source, i) + j] = call.source[i][j]

\* As flatten([[1,2],[ ],[3]]): an empty inner sequence between two others.
C21_Witness ==
    /\ Returned("FlatMap")
    /\ Len(call.source) = MaxOuter
    /\ Len(call.source[1]) = MaxInner
    /\ call.source[2] = <<>>
    /\ call.source[MaxOuter] # <<>>
    /\ ret.val = call.source[1] \o call.source[MaxOuter]

(***************************************************************************)
(* C22: Case[T](v) returns a pointer, not nil, to v and a nil error iff    *)
(* the dynamic type of v is T; for every other v, a nil v among them, it   *)
(* returns a nil pointer and the error "type assertion failed".            *)
(***************************************************************************)
Converted == ~ret.nil /\ ret.val = call.source /\ ret.err = NoError
Refused == ret.nil /\ ret.val = <<>> /\ ret.err = AssertionFailed

C22_CaseIffDynamicTypeIsT ==
    Returned("Case") =>
        IF call.source # NilInterface /\ call.source.type = call.T
        THEN Converted
        ELSE Refused

(***************************************************************************)
(* C22, amended: Case[T](v) returns a pointer to v and a nil error iff v   *)
(* is not nil and its dynamic type is T or, T being an interface type,     *)
(* implements T; for every other v it returns a nil pointer and the error  *)
(* "type assertion failed".                                                *)
(***************************************************************************)
AssertableTo(T) ==
    {type \in DynamicTypes : type = T \/ (T \in InterfaceTypes /\ Implements(type, T))}

C22_CaseIffAssertable ==
    Returned("Case") =>
        IF call.source # NilInterface /\ call.source.type \in AssertableTo(call.T)
        THEN Converted
        ELSE Refused

\* Case[any] of an int: the dynamic type is not T and the call succeeds.
C22_Witness ==
    /\ Returned("Case")
    /\ call.T = "any"
    /\ call.source = Dynamic("int", MaxElem)
    /\ Converted

C22_NamedTypeWitness ==
    /\ Returned("Case")
    /\ call.T = "int"
    /\ call.source.type = "MyInt"
    /\ Refused

(***************************************************************************)
(* C23: for a path every segment of which names a field of the record      *)
(* reached, through records only (no slice, no pointer on the way),        *)
(* GetField returns the value stored at the end of the path, at every      *)
(* depth.                                                                  *)
(***************************************************************************)
C23_RecordPathResolves ==
    (pc # "idle" /\ call.op = "GetField"
        /\ RecordPath(call.element, Split(call.fieldName)))
    => (pc = "returned" /\ ret.val = ValueAt(call.element, Split(call.fieldName)))

\* Outer.Item.Layer2.Age: three records deep.
C23_Witness ==
    /\ Returned("GetField")
    /\ call.element = Outer(MaxKey)
    /\ Len(Split(call.fieldName)) = MaxSegs
    /\ RecordPath(call.element, Split(call.fieldName))
    /\ ret.val = IntValue(MaxKey)

(***************************************************************************)
(* C24: MapHashMapToHashMap returns a new map with the keys of the input,  *)
(* each with the mapping function's result for that key and its value,     *)
(* and leaves the input map as it was.                                     *)
(***************************************************************************)
C24_SameKeysMappedValues ==
    Returned("MapHashMapToHashMap") =>
        /\ ~ret.nil
        /\ ret.ref = "fresh"
        /\ DOMAIN ret.val = DOMAIN call.source
        /\ \A key \in DOMAIN call.source :
              ret.val[key] = KeyAndValue(key, call.source[key])
        /\ mem = call.source

C24_Witness ==
    /\ Returned("MapHashMapToHashMap")
    /\ DOMAIN call.source = MapKeys
    /\ \E key \in MapKeys : call.source[key] = MaxKey
    /\ \E key \in MapKeys : call.source[key] # MaxKey
    /\ DOMAIN ret.val = MapKeys

(***************************************************************************)
(* C25: CloneMap returns a map with the entries of its input, and a map    *)
(* that is not nil and empty for a nil input; adding, removing or          *)
(* overwriting an entry of the clone leaves the original as it was, and    *)
(* the other way round.                                                    *)
(***************************************************************************)
Independent ==
    /\ call.wrote = "nothing" => (ret.val = call.source /\ mem = call.source)
    /\ call.wrote = "clone" => mem = call.source
    /\ call.wrote = "original" => ret.val = call.source

C25_CloneMapIndependent ==
    Returned("CloneMap") => (~ret.nil /\ Independent)

\* An entry of the clone is overwritten, added or removed.
C25_Witness ==
    /\ Returned("CloneMap")
    /\ call.wrote = "clone"
    /\ DOMAIN call.source # {}
    /\ ret.val # call.source
    /\ mem = call.source

C25_NilInputWitness ==
    /\ Returned("CloneMap")
    /\ call.isNil
    /\ call.wrote = "nothing"
    /\ ret.val = EmptyMap
    /\ ~ret.nil

(***************************************************************************)
(* C26: CloneList returns a sequence equal, element for element, to its    *)
(* input, in a container of its own: overwriting a position of the clone   *)
(* or appending to it never changes the original, and a nil input gives an *)
(* empty sequence that is not nil.                                         *)
(***************************************************************************)
C26_CloneListIndependent ==
    Returned("CloneList") =>
        /\ ~ret.nil
        /\ Independent
        /\ call.wrote = "nothing" =>
              /\ Len(ret.val) = Len(call.source)
              /\ \A i \in 1..Len(call.source) : ret.val[i] = call.source[i]

\* A position of the clone is overwritten.
C26_Witness ==
    /\ Returned("CloneList")
    /\ call.wrote = "clone"
    /\ Len(call.source) = MaxLen
    /\ Len(ret.val) = MaxLen
    /\ ret.val # call.source
    /\ mem = call.source

C26_NilInputWitness ==
    /\ Returned("CloneList")
    /\ call.isNil
    /\ call.wrote = "nothing"
    /\ ret.val = <<>>
    /\ ~ret.nil

(***************************************************************************)
(* C27: when GetField reaches a nil pointer with segments of the path      *)
(* still to resolve, it returns the invalid value: it does not crash and   *)
(* does not go on into the later segments.  Stated for paths through       *)
(* records and pointers.                                                   *)
(***************************************************************************)
RECURSIVE NilPointerOnPath(_, _)
NilPointerOnPath(v, names) ==
    /\ names # <<>>
    /\ \/ v = NilPointer
       \/ v.kind = "ptr" /\ ~v.isNil /\ NilPointerOnPath(v.elem, names)
       \/ /\ v.kind = "struct"
          /\ FieldByName(v, Head(names)) # Invalid
          /\ NilPointerOnPath(FieldByName(v, Head(names)), Tail(names))

C27_NilPointerIsInvalid ==
    (pc # "idle" /\ call.op = "GetField"
        /\ NilPointerOnPath(call.element, Split(call.fieldName)))
    => (pc = "returned" /\ ret.val = Invalid)

(***************************************************************************)
(* C28: when GetField broadcasts over a slice, the elements the sub-path   *)
(* does not resolve on are left out and never fail the call: the result is *)
(* a valid slice of what the sub-path resolves to on the other elements,   *)
(* in element order, possibly empty.  Stated for a path of two segments,   *)
(* the first naming the slice field.                                       *)
(***************************************************************************)
FieldOf(v, name) ==
    LET target == IF v.kind = "ptr" /\ ~v.isNil THEN v.elem ELSE v
    IN  IF target.kind = "struct" THEN FieldByName(target, name) ELSE Invalid

RECURSIVE Resolved(_, _)
Resolved(elems, name) ==
    IF elems = <<>>
    THEN <<>>
    ELSE IF FieldOf(Head(elems), name) = Invalid
         THEN Resolved(Tail(elems), name)
         ELSE <<FieldOf(Head(elems), name)>> \o Resolved(Tail(elems), name)

C28_BroadcastOmitsUnresolved ==
    LET names == Split(call.fieldName)
        field == FieldByName(call.element, Head(names))
    IN  (pc # "idle" /\ call.op = "GetField" /\ Len(names) = 2 /\ field.kind = "slice")
        => /\ pc = "returned"
           /\ ret.val = SliceValue(Resolved(field.elems, names[2]))

(***************************************************************************)
(* C29: MapHashMapToList is deterministic: for a map and a function, every *)
(* order the map may be iterated in and every choice the sort may make     *)
(* among keys it does not order give the same sequence, also when distinct *)
(* keys have the same string representation.                               *)
(***************************************************************************)
C29_MapHashMapToListDeterministic ==
    Returned("MapHashMapToList") =>
        \A order \in Orders(call.source) :
            MapHashMapToList(call.source, order) = {ret.val}

(***************************************************************************)
(* C30: the keys of the map MapToHashMap returns are the keys the mapping  *)
(* function gives for the elements of the input, and the value under a key *)
(* is the one given for the last element of the input with that key.       *)
(***************************************************************************)
LastWithKey(source, mappingFunc, key) ==
    CHOOSE i \in 1..Len(source) :
        /\ KeyFor(mappingFunc, source[i]) = key
        /\ \A j \in (i + 1)..Len(source) : KeyFor(mappingFunc, source[j]) # key

C30_LastValuePerKey ==
    Returned("MapToHashMap") =>
        /\ ~ret.nil
        /\ DOMAIN ret.val = {KeyFor(call.mappingFunc, call.source[i]) : i \in 1..Len(call.source)}
        /\ \A key \in DOMAIN ret.val :
              ret.val[key] = call.source[LastWithKey(call.source, call.mappingFunc, key)]

\* Two different elements give the same key; the later one is kept.
C30_Witness ==
    /\ Returned("MapToHashMap")
    /\ call.mappingFunc = "remainder"
    /\ Len(call.source) = MaxLen
    /\ call.source[1] # call.source[MaxLen]
    /\ KeyFor(call.mappingFunc, call.source[1]) = KeyFor(call.mappingFunc, call.source[MaxLen])
    /\ ret.val[KeyFor(call.mappingFunc, call.source[1])] = call.source[MaxLen]

====
